---- MODULE Spec2Model ----
(***************************************************************************)
(* jwtcrack (src/main.rs): dictionary search for the HMAC secret of a JWT. *)
(* main opens the wordlist, counts its lines, splits the token, selects    *)
(* the key constructor for the token's algorithm and then runs the closure *)
(* of wordlist.lines().par_bridge().for_each(..) on the threads of the     *)
(* rayon pool.  A thread whose candidate verifies prints it and calls      *)
(* exit(0); when every thread has drained the iterator main prints the     *)
(* no-secret message and returns.                                          *)
(***************************************************************************)
EXTENDS Integers, Sequences, FiniteSets, Bags, TLC

\* ---------------------------------------------------------------- bounds
MaxLines == 2        \* longest wordlist, in lines
MaxThreads == 2      \* largest value of --threads
\* size of rayon's default pool (threads = 0): the CPUs of the machine
NumCpus == 1 + MaxThreads \div 2

\* ------------------------------------------------------------ text, keys
\* A text is a sequence of characters.  The characters that matter to the
\* program are an ordinary one, the double quote and the backslash (the two
\* that the Debug formatting of a string escapes).
QUOTE == "\""
BACKSLASH == "\\"

Words == { <<>>, <<"a">>, <<QUOTE>> }

\* One item of BufRead::lines(): Ok(text) or Err (a line that is not UTF-8).
OkLine(t) == [ok |-> TRUE, text |-> t]
ErrLine == [ok |-> FALSE, text |-> <<>>]
LineItems == { OkLine(t) : t \in Words } \cup { ErrLine }

RECURSIVE SeqsUpTo(_, _)
SeqsUpTo(S, n) ==
    IF n = 0 THEN { <<>> }
    ELSE LET shorter == SeqsUpTo(S, n - 1)
         IN  shorter \cup { Append(s, x) : s \in { t \in shorter : Len(t) = n - 1 }, x \in S }

\* The file system: the path args.wordlist names a file or nothing.
Wordlists == { [exists |-> TRUE, lines |-> l] : l \in SeqsUpTo(LineItems, MaxLines) }
             \cup { [exists |-> FALSE, lines |-> <<>>] }

\* <impl Debug for str>::fmt as used by {word:?}: the text between double
\* quotes, with double quote and backslash escaped by a backslash.
RECURSIVE escape_debug(_)
escape_debug(t) ==
    IF t = <<>> THEN <<>>
    ELSE (IF Head(t) \in { QUOTE, BACKSLASH } THEN <<BACKSLASH, Head(t)>> ELSE <<Head(t)>>)
         \o escape_debug(Tail(t))

DebugFmt(t) == <<QUOTE>> \o escape_debug(t) \o <<QUOTE>>

\* ------------------------------------------------------------------ token
\* args.jwt, as the components jwt.split('.') yields (never fewer than one).
\* A component is the base64 of a header naming an algorithm, a claims
\* segment, the base64 of the MAC of "header.claims" under a key, or text
\* that does not decode.
HeaderSeg(a) == [kind |-> "header", alg |-> a, key |-> <<>>]
ClaimsSeg == [kind |-> "claims", alg |-> "-", key |-> <<>>]
MacSeg(a, k) == [kind |-> "mac", alg |-> a, key |-> k]
Garbage == [kind |-> "garbage", alg |-> "-", key |-> <<>>]

Hmacs == { "Hs256", "Hs384", "Hs512" }
Algorithms == Hmacs \cup { "None", "Rs256" }

Jwts ==
    \* well-formed tokens of every algorithm, signed with every key
    { <<HeaderSeg(a), ClaimsSeg, MacSeg(a, k)>> : a \in { "Hs256", "None", "Rs256" }, k \in Words }
    \cup { <<HeaderSeg(a), ClaimsSeg, MacSeg(a, <<"a">>)>> : a \in { "Hs384", "Hs512" } }
    \* a signature that does not decode, a signature of another algorithm,
    \* a fourth component
    \cup { <<HeaderSeg("Hs256"), ClaimsSeg, Garbage>>,
           <<HeaderSeg("Hs256"), ClaimsSeg, MacSeg("Hs512", <<"a">>)>>,
           <<HeaderSeg("Hs256"), ClaimsSeg, MacSeg("Hs256", <<"a">>), Garbage>> }
    \* malformed tokens: components missing, header undecodable
    \cup { <<HeaderSeg("Hs256")>>, <<HeaderSeg("Hs256"), ClaimsSeg>>,
           <<Garbage, ClaimsSeg, MacSeg("Hs256", <<"a">>)>>, <<Garbage>> }

Ok(v) == [ok |-> TRUE, val |-> v]
Err(e) == [ok |-> FALSE, val |-> e]

\* jwt::Header::from_base64(header)
from_base64(seg) ==
    IF seg.kind = "header" THEN Ok(seg.alg) ELSE Err("Format")

\* (mutation of split_jwt: a missing or undecodable part is replaced by a
\* default instead of being an error)
split_jwt_lenient(jwt) ==
    Ok([algorithm |-> IF from_base64(jwt[1]).ok THEN from_base64(jwt[1]).val ELSE "Hs256",
        header |-> jwt[1],
        claims |-> IF Len(jwt) >= 2 THEN jwt[2] ELSE Garbage,
        signature |-> IF Len(jwt) >= 3 THEN jwt[3] ELSE Garbage])

\* fn split_jwt
split_jwt(jwt) ==
    IF Len(jwt) < 1 THEN Err("NoHeaderComponent")
    ELSE IF Len(jwt) < 2 THEN Err("NoClaimsComponent")
    ELSE IF Len(jwt) < 3 THEN Err("NoSignatureComponent")
    ELSE IF ~from_base64(jwt[1]).ok THEN from_base64(jwt[1])
    ELSE Ok([algorithm |-> from_base64(jwt[1]).val,
             header |-> jwt[1], claims |-> jwt[2], signature |-> jwt[3]])

\* create_key(word): the Hmac of the selected digest keyed with the word.
create_key(alg, word) == [alg |-> alg, key |-> word]

\* (mutation of verify: the key is left out of the comparison)
verify_any_key(key, header, claims, signature) ==
    IF signature.kind # "mac" THEN Err("Base64")
    ELSE Ok(signature.alg = key.alg)

\* VerifyingAlgorithm::verify(header, claims, signature) of an Hmac key:
\* Err when the signature segment does not decode, else whether the MAC of
\* "header.claims" under the key is the decoded signature.
verify(key, header, claims, signature) ==
    IF signature.kind # "mac" THEN Err("Base64")
    ELSE Ok(signature.alg = key.alg /\ signature.key = key.key)

\* (mutation of unwrap_or: an error counts as a match)
unwrap_or_true(r, d) == IF r.ok THEN r.val ELSE TRUE

unwrap_or(r, d) == IF r.ok THEN r.val ELSE d

max(a, b) == IF a >= b THEN a ELSE b

\* line 52: the divisor of total_words in chunk
Percent == 100

\* ------------------------------------------------------------------ state
VARIABLES
    args,             \* Args: jwt, wordlist (the file the path names), threads
    pc,               \* where main is
    exit_code,        \* Running while the process lives, then its exit status
    stdout,           \* what has been printed: a bag of lines (their order is not kept)
    total_words,      \* line 47
    chunk,            \* line 52
    processed_words,  \* line 54, the shared AtomicUsize
    token,            \* line 56: (algorithm, header, claims, signature)
    wordlist,         \* line 44: the reader's position, in lines consumed
    opens,            \* File::open calls that succeeded
    thr,              \* per pool thread: place in the closure, item, key, p
    built,            \* per line: verifiers built from it
    verified,         \* per line: verifications attempted with it
    exit_calls,       \* calls of exit() made by pool threads
    handed            \* per line: times par_bridge handed it to a thread

vars == <<args, pc, exit_code, stdout, total_words, chunk, processed_words,
          token, wordlist, opens, thr, built, verified, exit_calls, handed>>

Running == -1
Threads == 1 .. MaxThreads
NoToken == [algorithm |-> "-", header |-> Garbage, claims |-> Garbage, signature |-> Garbage]
NoKey == [alg |-> "-", key |-> <<>>]
Idle == [at |-> "next", item |-> 0, key |-> NoKey, p |-> 0]

println(out, m) == out (+) SetToBag({m})
\* A line printed: its kind, its text, its number, and for a progress line
\* the value p it was printed for (p is not part of what is printed).
Msg(k, t, n) == [kind |-> k, text |-> t, n |-> n, p |-> 0]
ProgressLine(alg, percentage, p) == [kind |-> "progress", text |-> <<alg>>, n |-> percentage, p |-> p]

\* num_threads of the global pool: args.threads, or the default when it is 0
num_threads == IF args.threads > 0 THEN args.threads ELSE NumCpus
Pool == 1 .. num_threads

File == args.wordlist
Lines == File.lines

\* The state when main is entered with one of the given arguments; the
\* per-line counters are kept for lines 1 .. n.
InitWith(inputs, n) ==
    /\ args \in inputs
    /\ pc = "start"
    /\ exit_code = Running
    /\ stdout = EmptyBag
    /\ total_words = 0
    /\ chunk = 0
    /\ processed_words = 0
    /\ token = NoToken
    /\ wordlist = 0
    /\ opens = 0
    /\ thr = [w \in Threads |-> Idle]
    /\ built = [i \in 1 .. n |-> 0]
    /\ verified = [i \in 1 .. n |-> 0]
    /\ exit_calls = 0
    /\ handed = [i \in 1 .. n |-> 0]

Init == InitWith([jwt : Jwts, wordlist : Wordlists, threads : 0 .. MaxThreads], MaxLines)

\* Wordlists long enough for chunk to be more than 1 (the least such length):
\* blank lines, with or without an undecodable first line and the line "a"
\* last; next to them the short wordlists of lines "a".
LongLen == 2 * Percent
LongLines(first, last) ==
    [i \in 1 .. LongLen |-> IF i = 1 THEN first ELSE IF i = LongLen THEN last ELSE OkLine(<<>>)]
LongWordlists ==
    { [exists |-> TRUE, lines |-> LongLines(OkLine(<<>>), OkLine(<<>>))],
      [exists |-> TRUE, lines |-> LongLines(ErrLine, OkLine(<<"a">>))] }
    \cup { [exists |-> TRUE, lines |-> l] : l \in SeqsUpTo({ OkLine(<<"a">>) }, MaxLines) }
LongJwts ==
    { <<HeaderSeg("Hs256"), ClaimsSeg, MacSeg("Hs256", k)>> : k \in { <<"a">>, <<QUOTE>> } }

\* The long wordlists are searched by one thread, the short ones by every
\* number of threads.
LongInit ==
    /\ InitWith([jwt : LongJwts, wordlist : LongWordlists, threads : 1 .. MaxThreads], LongLen)
    /\ Len(args.wordlist.lines) = LongLen => args.threads = 1

Alive == exit_code = Running

\* ------------------------------------------------------------------- main
\* lines 32-42: parse the arguments, print, configure the pool
WarmUp ==
    /\ Alive /\ pc = "start"
    /\ stdout' = println(stdout, Msg("warming", <<>>, 0))
    /\ pc' = "open"
    /\ UNCHANGED <<args, exit_code, total_words, chunk, processed_words, token,
                   wordlist, opens, thr, built, verified, exit_calls, handed>>

\* line 44: File::open(&args.wordlist).expect("wordlist should exist")
OpenWordlist ==
    /\ Alive /\ pc = "open"
    /\ IF File.exists
       THEN /\ opens' = opens + 1
            /\ pc' = "count"
            /\ exit_code' = exit_code
       ELSE /\ pc' = "panicked"
            /\ exit_code' = 101
            /\ opens' = opens
    /\ UNCHANGED <<args, stdout, total_words, chunk, processed_words, token,
                   wordlist, thr, built, verified, exit_calls, handed>>

\* (mutation of count: the last line is not counted)
count_but_last(lines) == IF Len(lines) = 0 THEN 0 ELSE Len(lines) - 1

\* BufReader::lines().count(): every item counts, Ok or Err
count(lines) == Len(lines)

\* lines 47-54: the second open, the count of the lines, chunk, the counter
CountWords ==
    /\ Alive /\ pc = "count"
    /\ opens' = opens + 1
    /\ total_words' = count(Lines)
    /\ chunk' = max(1, count(Lines) \div Percent)
    /\ processed_words' = 0
    /\ pc' = "split"
    /\ UNCHANGED <<args, exit_code, stdout, token, wordlist, thr, built, verified,
                   exit_calls, handed>>

\* line 56: split_jwt(&args.jwt).expect("bad jwt")
SplitJwt ==
    /\ Alive /\ pc = "split"
    /\ IF split_jwt(args.jwt).ok
       THEN /\ token' = split_jwt(args.jwt).val
            /\ pc' = "select"
            /\ exit_code' = exit_code
       ELSE /\ pc' = "panicked"
            /\ exit_code' = 101
            /\ token' = token
    /\ UNCHANGED <<args, stdout, total_words, chunk, processed_words, wordlist,
                   opens, thr, built, verified, exit_calls, handed>>

\* lines 59-71: match algorithm
SelectCreateKey ==
    /\ Alive /\ pc = "select"
    /\ IF token.algorithm \in Hmacs
       THEN /\ pc' = "search"
            /\ UNCHANGED <<stdout, exit_code>>
       ELSE IF token.algorithm = "None"
       THEN /\ stdout' = println(stdout, Msg("nothing", <<>>, 0))
            /\ pc' = "exited"
            /\ exit_code' = 0
       ELSE /\ stdout' = println(stdout, Msg("unsupported", <<>>, 0))
            /\ pc' = "exited"
            /\ exit_code' = 1
    /\ UNCHANGED <<args, total_words, chunk, processed_words, token, wordlist,
                   opens, thr, built, verified, exit_calls, handed>>

\* ---------------------------------------------- the closure, per pool thread
\* (mutation of TakeLine: the reader is one line ahead of the line handed out)
TakeLine_reads_ahead(w) ==
    /\ exit_code = -1 /\ pc = "search" /\ thr[w].at = "next"
    /\ IF wordlist < Len(args.wordlist.lines)
       THEN /\ wordlist' = IF wordlist + 2 <= Len(args.wordlist.lines)
                           THEN wordlist + 2 ELSE wordlist + 1
            /\ thr' = [thr EXCEPT ![w].at = "got", ![w].item = wordlist + 1]
            /\ handed' = [handed EXCEPT ![wordlist + 1] = @ + 1]
       ELSE /\ thr' = [thr EXCEPT ![w].at = "drained"]
            /\ wordlist' = wordlist
            /\ handed' = handed
    /\ UNCHANGED <<args, pc, exit_code, stdout, total_words, chunk, processed_words,
                   token, opens, built, verified, exit_calls>>

\* (mutation of TakeLine: no lock on the iterator, so that two threads asking
\* at the same time are handed the same line)
TakeLine_unlocked(w) ==
    /\ exit_code = -1 /\ pc = "search" /\ thr[w].at = "next"
    /\ IF wordlist < Len(args.wordlist.lines)
       THEN /\ wordlist' = IF \E v \in 1 .. MaxThreads : v # w /\ thr[v].at = "next"
                           THEN wordlist ELSE wordlist + 1
            /\ thr' = [thr EXCEPT ![w].at = "got", ![w].item = wordlist + 1]
            /\ handed' = [handed EXCEPT ![wordlist + 1] = @ + 1]
       ELSE /\ thr' = [thr EXCEPT ![w].at = "drained"]
            /\ wordlist' = wordlist
            /\ handed' = handed
    /\ UNCHANGED <<args, pc, exit_code, stdout, total_words, chunk, processed_words,
                   token, opens, built, verified, exit_calls>>

\* (mutation of TakeLine: the last line of the file is never handed out)
TakeLine_drops_last(w) ==
    /\ exit_code = -1 /\ pc = "search" /\ thr[w].at = "next"
    /\ IF wordlist + 1 < Len(args.wordlist.lines)
       THEN /\ wordlist' = wordlist + 1
            /\ thr' = [thr EXCEPT ![w].at = "got", ![w].item = wordlist + 1]
            /\ handed' = [handed EXCEPT ![wordlist + 1] = @ + 1]
       ELSE /\ thr' = [thr EXCEPT ![w].at = "drained"]
            /\ wordlist' = wordlist
            /\ handed' = handed
    /\ UNCHANGED <<args, pc, exit_code, stdout, total_words, chunk, processed_words,
                   token, opens, built, verified, exit_calls>>

\* line 73: par_bridge hands the next item of wordlist.lines() to the thread
\* that asks for it, under the iterator's lock; None ends the thread's share.
TakeLine(w) ==
    /\ Alive /\ pc = "search" /\ thr[w].at = "next"
    /\ IF wordlist < Len(Lines)
       THEN /\ wordlist' = wordlist + 1
            /\ thr' = [thr EXCEPT ![w] = [Idle EXCEPT !.at = "got", !.item = wordlist + 1]]
            /\ handed' = [handed EXCEPT ![wordlist + 1] = @ + 1]
       ELSE /\ thr' = [thr EXCEPT ![w].at = "drained"]
            /\ wordlist' = wordlist
            /\ handed' = handed
    /\ UNCHANGED <<args, pc, exit_code, stdout, total_words, chunk, processed_words,
                   token, opens, built, verified, exit_calls>>

\* (mutations of usable: blank lines are dropped too; nothing is dropped)
usable_nonblank(item) == item.ok /\ item.text # <<>>
usable_any(item) == TRUE

\* line 74: the pattern Ok(word) matches the item
usable(item) == item.ok

\* lines 74-76: let Ok(word) = word else { return; }
SkipLine(w) ==
    /\ Alive /\ pc = "search" /\ thr[w].at = "got"
    /\ ~usable(Lines[thr[w].item])
    /\ thr' = [thr EXCEPT ![w] = Idle]
    /\ UNCHANGED <<args, pc, exit_code, stdout, total_words, chunk, processed_words,
                   token, wordlist, opens, built, verified, exit_calls, handed>>

\* (mutation of CountWord: a load and a store in place of fetch_add, so that
\* the increment is lost when another thread is about to count too)
CountWord_lost_update(w) ==
    /\ exit_code = -1 /\ pc = "search" /\ thr[w].at = "got"
    /\ args.wordlist.lines[thr[w].item].ok
    /\ built' = [built EXCEPT ![thr[w].item] = @ + 1]
    /\ processed_words' = IF \E v \in 1 .. MaxThreads : v # w /\ thr[v].at = "got"
                           THEN processed_words ELSE processed_words + 1
    /\ thr' = [thr EXCEPT ![w].at = "counted",
                          ![w].key = create_key(token.algorithm, args.wordlist.lines[thr[w].item].text),
                          ![w].p = processed_words]
    /\ UNCHANGED <<args, pc, exit_code, stdout, total_words, chunk, token, wordlist,
                   opens, verified, exit_calls, handed>>

\* (mutation of CountWord: p is the counter after the increment)
CountWord_returns_new(w) ==
    /\ exit_code = -1 /\ pc = "search" /\ thr[w].at = "got"
    /\ args.wordlist.lines[thr[w].item].ok
    /\ built' = [built EXCEPT ![thr[w].item] = @ + 1]
    /\ processed_words' = processed_words + 1
    /\ thr' = [thr EXCEPT ![w].at = "counted",
                          ![w].key = create_key(token.algorithm, args.wordlist.lines[thr[w].item].text),
                          ![w].p = processed_words + 1]
    /\ UNCHANGED <<args, pc, exit_code, stdout, total_words, chunk, token, wordlist,
                   opens, verified, exit_calls, handed>>

\* lines 78-81: create_key(word.as_bytes()); processed_words.fetch_add(1)
CountWord(w) ==
    /\ Alive /\ pc = "search" /\ thr[w].at = "got"
    /\ usable(Lines[thr[w].item])
    /\ built' = [built EXCEPT ![thr[w].item] = @ + 1]
    /\ processed_words' = processed_words + 1
    /\ thr' = [thr EXCEPT ![w].at = "counted",
                          ![w].key = create_key(token.algorithm, Lines[thr[w].item].text),
                          ![w].p = processed_words]
    /\ UNCHANGED <<args, pc, exit_code, stdout, total_words, chunk, token, wordlist,
                   opens, verified, exit_calls, handed>>

\* (mutation of Progress: the value tested and printed is loaded from the
\* counter again instead of being the one fetch_add returned)
Progress_reads_counter(w) ==
    /\ exit_code = -1 /\ pc = "search" /\ thr[w].at = "counted"
    /\ IF (processed_words - 1) % chunk # 0
       THEN /\ thr' = [thr EXCEPT ![w].at = "verify"]
            /\ UNCHANGED <<stdout, pc, exit_code>>
       ELSE IF total_words # 0
       THEN /\ stdout' = stdout (+) SetToBag({[kind |-> "progress", text |-> <<thr[w].key.alg>>,
                              n |-> ((processed_words - 1) * 100) \div total_words,
                              p |-> processed_words - 1]})
            /\ thr' = [thr EXCEPT ![w].at = "verify"]
            /\ UNCHANGED <<pc, exit_code>>
       ELSE /\ thr' = [thr EXCEPT ![w].at = "panicked"]
            /\ pc' = "panicked"
            /\ exit_code' = 101
            /\ stdout' = stdout
    /\ UNCHANGED <<args, total_words, chunk, processed_words, token, wordlist,
                   opens, built, verified, exit_calls, handed>>

\* lines 82-85: the progress line (algorithm and percentage; total_words,
\* which is the same in every line of a run, is not kept in it);
\* (p * 100) / total_words panics when total_words is 0, which ends the
\* process with status 101
Progress(w) ==
    /\ Alive /\ pc = "search" /\ thr[w].at = "counted"
    /\ IF thr[w].p % chunk # 0
       THEN /\ thr' = [thr EXCEPT ![w].at = "verify"]
            /\ UNCHANGED <<stdout, pc, exit_code>>
       ELSE IF total_words # 0
       THEN /\ stdout' = println(stdout, ProgressLine(thr[w].key.alg,
                                            (thr[w].p * 100) \div total_words, thr[w].p))
            /\ thr' = [thr EXCEPT ![w].at = "verify"]
            /\ UNCHANGED <<pc, exit_code>>
       ELSE /\ thr' = [thr EXCEPT ![w].at = "panicked"]
            /\ pc' = "panicked"
            /\ exit_code' = 101
            /\ stdout' = stdout
    /\ UNCHANGED <<args, total_words, chunk, processed_words, token, wordlist,
                   opens, built, verified, exit_calls, handed>>

\* line 87: key.verify(header, claims, signature).unwrap_or(false)
Verify(w) ==
    /\ Alive /\ pc = "search" /\ thr[w].at = "verify"
    /\ verified' = [verified EXCEPT ![thr[w].item] = @ + 1]
    /\ IF unwrap_or(verify(thr[w].key, token.header, token.claims, token.signature), FALSE)
       THEN thr' = [thr EXCEPT ![w].at = "matched"]
       ELSE thr' = [thr EXCEPT ![w] = Idle]
    /\ UNCHANGED <<args, pc, exit_code, stdout, total_words, chunk, processed_words,
                   token, wordlist, opens, built, exit_calls, handed>>

\* (mutation of PrintFound: the word printed is the line read last, not the
\* thread's own)
PrintFound_last_read(w) ==
    /\ exit_code = -1 /\ pc = "search" /\ thr[w].at = "matched"
    /\ stdout' = println(stdout, Msg("found", DebugFmt(args.wordlist.lines[wordlist].text), 0))
    /\ thr' = [thr EXCEPT ![w].at = "exit"]
    /\ UNCHANGED <<args, pc, exit_code, total_words, chunk, processed_words, token,
                   wordlist, opens, built, verified, exit_calls, handed>>

\* line 88: println!("\nFound secret: {word:?}")
PrintFound(w) ==
    /\ Alive /\ pc = "search" /\ thr[w].at = "matched"
    /\ stdout' = println(stdout, Msg("found", DebugFmt(Lines[thr[w].item].text), 0))
    /\ thr' = [thr EXCEPT ![w].at = "exit"]
    /\ UNCHANGED <<args, pc, exit_code, total_words, chunk, processed_words, token,
                   wordlist, opens, built, verified, exit_calls, handed>>

\* line 89: exit(0) is called; the other threads run until the process is gone
CallExit(w) ==
    /\ Alive /\ pc = "search" /\ thr[w].at = "exit"
    /\ exit_calls' = exit_calls + 1
    /\ thr' = [thr EXCEPT ![w].at = "exiting"]
    /\ UNCHANGED <<args, pc, exit_code, stdout, total_words, chunk, processed_words,
                   token, wordlist, opens, built, verified, handed>>

\* line 89: the exit completes and the process ends with status 0
ProcessExit ==
    /\ Alive /\ pc = "search"
    /\ \E w \in Pool : thr[w].at = "exiting"
    /\ pc' = "exited"
    /\ exit_code' = 0
    /\ UNCHANGED <<args, stdout, total_words, chunk, processed_words, token,
                   wordlist, opens, thr, built, verified, exit_calls, handed>>

\* (mutation of NoSecret: for_each waits for threads the pool does not have)
NoSecret_waits_for_all ==
    /\ exit_code = -1 /\ pc = "search"
    /\ \A w \in 1 .. MaxThreads : thr[w].at = "drained"
    /\ stdout' = println(stdout, Msg("nosecret", <<>>, 0))
    /\ pc' = "returned"
    /\ exit_code' = 0
    /\ UNCHANGED <<args, total_words, chunk, processed_words, token, wordlist,
                   opens, thr, built, verified, exit_calls, handed>>

\* (mutation of NoSecret: for_each returns as soon as one thread has drained)
NoSecret_early ==
    /\ exit_code = -1 /\ pc = "search"
    /\ \E w \in 1 .. (IF args.threads > 0 THEN args.threads ELSE NumCpus) : thr[w].at = "drained"
    /\ stdout' = println(stdout, Msg("nosecret", <<>>, 0))
    /\ pc' = "returned"
    /\ exit_code' = 0
    /\ UNCHANGED <<args, total_words, chunk, processed_words, token, wordlist,
                   opens, thr, built, verified, exit_calls, handed>>

\* lines 91-94: for_each returns once every thread has drained the iterator;
\* main prints the no-secret message and returns
NoSecret ==
    /\ Alive /\ pc = "search"
    /\ \A w \in Pool : thr[w].at = "drained"
    /\ stdout' = println(stdout, Msg("nosecret", <<>>, 0))
    /\ pc' = "returned"
    /\ exit_code' = 0
    /\ UNCHANGED <<args, total_words, chunk, processed_words, token, wordlist,
                   opens, thr, built, verified, exit_calls, handed>>

Worker(w) ==
    /\ w \in Pool
    /\ \/ TakeLine(w)
       \/ SkipLine(w)
       \/ CountWord(w)
       \/ Progress(w)
       \/ Verify(w)
       \/ PrintFound(w)
       \/ CallExit(w)

Main ==
    \/ WarmUp
    \/ OpenWordlist
    \/ CountWords
    \/ SplitJwt
    \/ SelectCreateKey
    \/ NoSecret

Next ==
    \/ WarmUp
    \/ OpenWordlist
    \/ CountWords
    \/ SplitJwt
    \/ SelectCreateKey
    \/ \E w \in Pool : TakeLine(w)
    \/ \E w \in Pool : SkipLine(w)
    \/ \E w \in Pool : CountWord(w)
    \/ \E w \in Pool : Progress(w)
    \/ \E w \in Pool : Verify(w)
    \/ \E w \in Pool : PrintFound(w)
    \/ \E w \in Pool : CallExit(w)
    \/ ProcessExit
    \/ NoSecret

Spec == Init /\ [][Next]_vars

\* The threads are operating-system threads: main, every pool thread and a
\* started exit all keep running.
\* The same program on the long wordlists.
LongSpec == LongInit /\ [][Next]_vars

FairSpec ==
    /\ Spec
    /\ WF_vars(Main)
    /\ \A w \in Threads : WF_vars(Worker(w))
    /\ WF_vars(ProcessExit)

\* ----------------------------------------------------------------- claims
\* How many lines of a kind have been printed.
NumPrinted(k) ==
    BagCardinality([m \in { x \in BagToSet(stdout) : x.kind = k } |-> CopiesIn(m, stdout)])

FoundLines == { m \in BagToSet(stdout) : m.kind = "found" }
Ended == exit_code # Running

\* The input reaches the search: the wordlist opens, the token splits and
\* names an HMAC algorithm.
WellFormed == split_jwt(args.jwt).ok
Parsed == split_jwt(args.jwt).val
ReachesSearch == File.exists /\ WellFormed /\ Parsed.algorithm \in Hmacs

\* The token was signed with its header's algorithm under TrueKey.
Signed == Parsed.signature.kind = "mac" /\ Parsed.signature.alg = Parsed.algorithm
TrueKey == Parsed.signature.key

\* A candidate text that the search accepts.
Verifies(t) ==
    unwrap_or(verify(create_key(Parsed.algorithm, t), Parsed.header, Parsed.claims,
                     Parsed.signature), FALSE)

LineNos == 1 .. Len(Lines)

\* C1: for a token of a supported HMAC algorithm and a wordlist that has the
\* true key as a line, whatever the number of threads, the run ends in FOUND:
\* it never prints the no-secret message, every secret it reports is the
\* (Debug-formatted) text of a line equal to the true key and of no other
\* word, the process cannot stop before it has ended, and when it has ended
\* it has printed a found message and its status is 0.
C1_Case == ReachesSearch /\ Signed /\ \E i \in LineNos : Lines[i] = OkLine(TrueKey)

C1_FoundOnly ==
    C1_Case =>
        /\ pc # "returned"
        /\ NumPrinted("nosecret") = 0
        /\ \A m \in FoundLines :
              /\ \E i \in LineNos : Lines[i] = OkLine(TrueKey) /\ m.text = DebugFmt(Lines[i].text)
              /\ \A t \in Words : m.text = DebugFmt(t) => t = TrueKey
        /\ Ended => pc = "exited" /\ exit_code = 0 /\ NumPrinted("found") >= 1
        /\ ~Ended => ENABLED Next

C1_TrueKeyIsFound == []C1_FoundOnly

C1_Witness ==
    /\ C1_Case /\ Ended /\ NumPrinted("found") >= 1
    /\ num_threads > 1
    /\ \E i \in LineNos : Lines[i].ok /\ Lines[i].text # TrueKey /\ verified[i] = 1

\* C3: when no line of the wordlist verifies, the run ends in EXHAUSTED: it
\* prints no found message, it cannot stop before it has ended, and when it
\* has ended it has printed the no-secret message once, its status is 0 and
\* every decodable non-blank line has been tried exactly once over all threads.
C3_Case == ReachesSearch /\ \A i \in LineNos : Lines[i].ok => ~Verifies(Lines[i].text)

C3_NoMatch ==
    C3_Case =>
        /\ NumPrinted("found") = 0
        /\ \A i \in LineNos : verified[i] <= 1 /\ built[i] <= 1
        /\ Ended =>
              /\ pc = "returned" /\ exit_code = 0
              /\ NumPrinted("nosecret") = 1
              /\ \A i \in LineNos :
                    Lines[i].ok /\ Lines[i].text # <<>> => verified[i] = 1 /\ built[i] = 1
        /\ ~Ended => ENABLED Next

C3_NoMatchIsExhausted == []C3_NoMatch

C3_Witness ==
    /\ C3_Case /\ pc = "returned" /\ num_threads > 1
    /\ Len(Lines) = MaxLines
    /\ \A i \in LineNos : Lines[i].ok /\ Lines[i].text # <<>> /\ verified[i] = 1

\* C2: with more than one thread and several lines that verify, exactly one
\* found message is printed and exit is called exactly once, whatever the
\* interleaving: no second thread prints between the first thread's print and
\* its exit.
C2_OneFoundMessage ==
    /\ NumPrinted("found") <= 1
    /\ exit_calls <= 1
    /\ \A w \in Pool : thr[w].at = "exit" => NumPrinted("found") = 1

\* C4: for a token of the "none" algorithm the program prints the
\* nothing-to-crack message and exits with status 0, and the wordlist is
\* never opened, counted or the cause of a failure.
IsNone == Len(args.jwt) >= 3 /\ args.jwt[1] = HeaderSeg("None")

C4_NoneNeverTouchesWordlist ==
    IsNone =>
        /\ opens = 0
        /\ pc # "panicked"
        /\ Ended => exit_code = 0 /\ NumPrinted("nothing") = 1

\* C5: for a token of an algorithm that is neither an HMAC nor "none" the
\* program reports the unsupported algorithm and exits with status 1, and
\* the wordlist is never opened or read.
IsUnsupported ==
    /\ Len(args.jwt) >= 3 /\ args.jwt[1].kind = "header"
    /\ args.jwt[1].alg \notin Hmacs \cup { "None" }

C5_UnsupportedNeverReadsWordlist ==
    IsUnsupported =>
        /\ opens = 0
        /\ Ended => exit_code = 1 /\ NumPrinted("unsupported") = 1

\* C6: a run that reaches the search produces one outcome: never both a found
\* message and the no-secret message, the no-secret message at most once and
\* only when every thread of the pool has drained the wordlist and no line
\* verified, and a run that has ended has printed one of the two.
C6_OneOutcome ==
    /\ ~(NumPrinted("found") > 0 /\ NumPrinted("nosecret") > 0)
    /\ NumPrinted("nosecret") <= 1
    /\ NumPrinted("nosecret") > 0 =>
          /\ \A w \in Pool : thr[w].at = "drained"
          /\ wordlist = Len(Lines)
          /\ \A i \in LineNos : Lines[i].ok => verified[i] = 1 /\ ~Verifies(Lines[i].text)
    /\ Ended /\ ReachesSearch => NumPrinted("found") + NumPrinted("nosecret") >= 1

C6_Witness ==
    /\ NumPrinted("nosecret") = 1 /\ num_threads > 1
    /\ \E i \in LineNos : Lines[i].ok /\ verified[i] = 1

\* C7: the percentage is never computed with total_words = 0: a thread that
\* is about to compute it sees total_words >= 1 and no thread panics; once
\* counted, chunk >= 1; a wordlist of zero lines gives total_words = 0 and
\* chunk = 1, prints no progress line and ends in EXHAUSTED.
Counted == opens = 2

C7_NoDivisionByZero ==
    /\ \A w \in Pool : thr[w].at = "counted" => (thr[w].p % chunk = 0 => total_words >= 1)
    /\ \A w \in Threads : thr[w].at # "panicked"
    /\ Counted => chunk >= 1
    /\ Counted /\ Lines = <<>> =>
          /\ total_words = 0 /\ chunk = 1
          /\ NumPrinted("progress") = 0
          /\ Ended /\ ReachesSearch => pc = "returned" /\ exit_code = 0

C7_Witness ==
    Lines = <<>> /\ pc = "returned" /\ total_words = 0 /\ chunk = 1

RECURSIVE SumUpTo(_, _)
SumUpTo(f, n) == IF n = 0 THEN 0 ELSE f[n] + SumUpTo(f, n - 1)

C9_Skipped ==
    /\ \A i \in LineNos : ~Lines[i].ok => built[i] = 0 /\ verified[i] = 0
    /\ processed_words = SumUpTo(built, MaxLines)
    /\ \A w \in Pool : thr[w].at \in { "counted", "verify", "matched", "exit", "exiting" } =>
                          Lines[thr[w].item].ok
    /\ ReachesSearch =>
          /\ pc # "panicked"
          /\ ~Ended => ENABLED Next
          /\ Ended =>
                \/ pc = "exited" /\ NumPrinted("found") >= 1
                \/ /\ pc = "returned" /\ NumPrinted("nosecret") = 1
                   /\ \A i \in LineNos : Lines[i].ok => verified[i] = 1

C9_UndecodableLineSkipped == []C9_Skipped

C9_Witness ==
    /\ Ended /\ pc = "returned"
    /\ \E i, j \in LineNos : i < j /\ ~Lines[i].ok /\ Lines[j].ok /\ verified[j] = 1

\* C10: when the wordlist cannot be opened or the token is malformed (a
\* segment missing, the header undecodable) the run aborts with a failure
\* before any parallel work: no line is handed to a thread, no verifier is
\* built, nothing is verified and processed_words stays 0.
MissingSegment == Len(args.jwt) < 3
UndecodableHeader == args.jwt[1].kind # "header"
InputError == ~File.exists \/ MissingSegment \/ UndecodableHeader

C10_InputErrorAbortsBeforeSearch ==
    InputError =>
        /\ pc \notin { "select", "search", "returned", "exited" }
        /\ wordlist = 0
        /\ \A w \in Threads : thr[w] = Idle
        /\ \A i \in 1 .. MaxLines : built[i] = 0 /\ verified[i] = 0
        /\ processed_words = 0
        /\ NumPrinted("progress") + NumPrinted("found") + NumPrinted("nosecret") = 0
        /\ Ended => pc = "panicked" /\ exit_code = 101
        /\ ~Ended => ENABLED Next

C10_Witness ==
    /\ Ended /\ pc = "panicked"
    /\ File.exists /\ Len(Lines) = MaxLines /\ \A i \in LineNos : Lines[i].ok
    /\ MissingSegment \/ UndecodableHeader

\* C11: a run that starts the search ends, by a match or by exhaustion and
\* by one of them only, with status 0, and no thread blocks for ever: a state
\* in which the process lives always has a step some thread can take, and
\* every step lowers a measure of the work left (the lines not yet handed
\* out, then the place of every thread in the closure, then main's place), so
\* that under fair scheduling of the threads the run ends.
StageRank ==
    CASE pc = "start" -> 5 [] pc = "open" -> 4 [] pc = "count" -> 3
      [] pc = "split" -> 2 [] pc = "select" -> 1 [] OTHER -> 0

AtRank(at) ==
    CASE at = "got" -> 8 [] at = "counted" -> 7 [] at = "verify" -> 6
      [] at = "matched" -> 5 [] at = "exit" -> 4 [] at = "exiting" -> 3
      [] at = "next" -> 2 [] at = "drained" -> 1 [] OTHER -> 0

RECURSIVE ThreadsRank(_)
ThreadsRank(n) == IF n = 0 THEN 0 ELSE AtRank(thr[n].at) + ThreadsRank(n - 1)

WorkLeft ==
    10 * (Len(Lines) - wordlist) + ThreadsRank(MaxThreads) + StageRank
    + (IF Ended THEN 0 ELSE 1)

C11_Outcome ==
    /\ ~Ended => ENABLED Next
    /\ Ended /\ ReachesSearch =>
          /\ exit_code = 0
          /\ \/ pc = "exited" /\ NumPrinted("found") >= 1 /\ NumPrinted("nosecret") = 0
             \/ pc = "returned" /\ NumPrinted("found") = 0 /\ NumPrinted("nosecret") = 1

C11_SearchTerminates ==
    /\ []C11_Outcome
    /\ [][WorkLeft' < WorkLeft /\ WorkLeft' >= 0]_vars

C11_Witness ==
    /\ Ended /\ pc = "exited"
    /\ \E w \in Pool : thr[w].at = "exiting"
    /\ \E w \in Pool : thr[w].at \in { "got", "counted", "verify" }

\* C12: the secret reported is a function of the token and the wordlist
\* alone: in every run, whatever the number of threads and their scheduling,
\* every found message is the one a sequential search would print, the
\* Debug-formatted text of the first line in file order that verifies.
VerifyingLines == { i \in LineNos : Lines[i].ok /\ Verifies(Lines[i].text) }
FirstVerifying == CHOOSE i \in VerifyingLines : \A j \in VerifyingLines : i <= j
SequentialReport == Msg("found", DebugFmt(Lines[FirstVerifying].text), 0)

C12_SameSecret ==
    \A m \in FoundLines : VerifyingLines # {} /\ m = SequentialReport

C12_SameSecretEveryRun == []C12_SameSecret

C12_Witness ==
    /\ NumPrinted("found") >= 1 /\ num_threads > 1
    /\ \E w \in Pool : thr[w].at \in { "exit", "exiting" } /\ thr[w].item # FirstVerifying

\* C13: processed_words is incremented once per candidate and no increment is
\* lost: in every state it is the number of verifiers built, the threads in
\* flight hold different values of it, all below it, a step leaves it or adds
\* one to it, and at EXHAUSTED it is the number of decodable lines.
InFlight == { w \in Pool : thr[w].at \in { "counted", "verify", "matched", "exit", "exiting" } }
DecodableLines == { i \in LineNos : Lines[i].ok }

C13_Counted ==
    /\ processed_words = SumUpTo(built, Len(built))
    /\ \A w \in InFlight : thr[w].p < processed_words
    /\ \A v, w \in InFlight : v # w => thr[v].p # thr[w].p
    /\ pc = "returned" => processed_words = Cardinality(DecodableLines)

C13_CounterCountsCandidates ==
    /\ []C13_Counted
    /\ [][processed_words' \in { processed_words, processed_words + 1 }]_vars

C13_Witness ==
    /\ pc = "returned" /\ num_threads > 1
    /\ processed_words = MaxLines /\ Cardinality(DecodableLines) = MaxLines

\* C14 (as stated): no line is handed to two threads or tried twice, and when
\* the run has ended a line is left untried only if a match was found.
C14_LineUntriedOnlyIfFound ==
    \A i \in LineNos :
        /\ handed[i] <= 1 /\ verified[i] <= 1
        /\ Ended /\ ReachesSearch /\ verified[i] = 0 => NumPrinted("found") >= 1

\* C14 (amended): the lines are handed out in file order, each to one thread:
\* no line is handed out twice or tried twice, no two threads hold the same
\* line, a line that does not decode is handed out but never tried, and when
\* the run has ended a decodable line is left untried only if a match was
\* found.
Holding == { w \in Pool : thr[w].at \notin { "next", "drained" } }

C14_EachLineToOneThread ==
    /\ \A i \in LineNos :
          /\ handed[i] = (IF i <= wordlist THEN 1 ELSE 0)
          /\ verified[i] <= handed[i]
          /\ ~Lines[i].ok => verified[i] = 0
          /\ Ended /\ ReachesSearch /\ Lines[i].ok /\ verified[i] = 0 =>
                NumPrinted("found") >= 1
    /\ \A w \in Holding : thr[w].item \in 1 .. wordlist
    /\ \A v, w \in Holding : v # w => thr[v].item # thr[w].item

C14_Witness ==
    /\ Ended /\ pc = "returned" /\ num_threads > 1
    /\ \E i, j \in LineNos : ~Lines[i].ok /\ handed[i] = 1 /\ Lines[j].ok /\ verified[j] = 1

\* C15: total_words is counted under the skip rule of the search: in a run
\* that ends in EXHAUSTED it equals the number of lines tried as candidates,
\* the final value of processed_words, also for wordlists with blank or
\* undecodable lines.
C15_TotalIsCandidatesTried ==
    pc = "returned" => total_words = processed_words

\* C16 (as stated): every read of the wordlist is over before the parallel
\* phase: once a line has been handed to a thread the reader reads no more.
SomeLineHanded == \E i \in LineNos : handed[i] >= 1

C16_NoReadAfterFirstHandOut ==
    [][SomeLineHanded => wordlist' = wordlist]_vars

\* C16 (amended): the counting pass is over before the parallel phase (both
\* opens are done and total_words is the number of lines), and the reader of
\* the search has read nothing by then; the search reads the file lazily
\* during the parallel phase, a line at each hand-out, so that the lines read
\* are the lines handed out.
C16_CountBeforeSearchReadsLazily ==
    /\ pc \in { "search", "returned" } => opens = 2 /\ total_words = Len(Lines)
    /\ pc \in { "start", "open", "count", "split", "select", "panicked" } =>
          wordlist = 0 /\ ~SomeLineHanded
    /\ wordlist = SumUpTo(handed, Len(handed))
    /\ wordlist <= Len(Lines)

C16_Witness ==
    /\ pc = "search" /\ wordlist = 1 /\ Len(Lines) > 1
    /\ verified[1] = 1

\* ---------------------------------------------------------------------------
ProgressLines == { m \in BagToSet(stdout) : m.kind = "progress" }

\* How many progress lines have been printed for the value p.
NumProgress(p) ==
    BagCardinality([m \in { x \in ProgressLines : x.p = p } |-> CopiesIn(m, stdout)])

\* A thread holds the value p and has not reached the test of p yet.
Pending(p) == \E w \in Pool : thr[w].at = "counted" /\ thr[w].p = p

Attempted == 0 .. processed_words - 1

\* C17 as stated: when the run has ended, every multiple of chunk below the
\* number of candidates attempted has exactly one progress line.
C17_EveryMultipleReportedOnce ==
    Ended /\ Counted =>
        \A p \in Attempted : p % chunk = 0 => NumProgress(p) = 1

\* C17: every value below the number of candidates attempted is held by one
\* thread at most; a progress line is printed for multiples of chunk only,
\* never twice for the same value, and exactly once for every multiple whose
\* thread has passed the test of p; a multiple has no line only while, or
\* because, the process ended while, its thread had not passed the test yet.
\* When the wordlist is exhausted every multiple below the number of
\* candidates has exactly one line, the value 0 included.
C17_ReportedOnceUnlessCutShort ==
    Counted =>
        /\ chunk = max(1, total_words \div Percent)
        /\ \A v, w \in InFlight : v # w => thr[v].p # thr[w].p
        /\ \A m \in ProgressLines : m.p \in Attempted
        /\ \A p \in Attempted :
              NumProgress(p) = IF p % chunk = 0 /\ ~Pending(p) THEN 1 ELSE 0
        /\ pc = "returned" =>
              \A p \in Attempted : p % chunk = 0 => NumProgress(p) = 1

C17_Witness ==
    /\ pc = "returned" /\ chunk > 1 /\ processed_words = LongLen
    /\ NumProgress(0) = 1 /\ NumProgress(1) = 0 /\ NumProgress(chunk) = 1

\* C18: every percentage printed is in 0 .. 99, and every thread that is
\* about to compute a percentage holds a value p below total_words.
C18_PercentageBelow100 ==
    /\ \A m \in ProgressLines : m.n \in 0 .. 99
    /\ \A w \in Pool : thr[w].at = "counted" => thr[w].p < total_words

\* The percentage of the last candidate has been printed, and it is 99.
C18_Witness ==
    /\ processed_words >= 2
    /\ \E m \in ProgressLines : m.p = processed_words - 1 /\ m.n = 99
    /\ \A i \in LineNos : handed[i] >= 1

\* C19: when the signature of the token cannot be decoded, every
\* verification is an error and none is a match: no secret is reported, the
\* process ends by no panic and no early exit, it cannot stop before it has
\* ended, and when it has ended every decodable line has been counted and
\* verified once, the no-secret message is printed once and the status is 0.
C19_Case == ReachesSearch /\ args.jwt[3].kind = "garbage"

C19_VerifyErrorIsNonMatch ==
    C19_Case =>
        /\ NumPrinted("found") = 0
        /\ \A w \in Pool : thr[w].at \notin { "matched", "exit", "exiting", "panicked" }
        /\ pc \notin { "exited", "panicked" }
        /\ Ended =>
              /\ pc = "returned" /\ exit_code = 0
              /\ NumPrinted("nosecret") = 1
              /\ processed_words = Cardinality(DecodableLines)
              /\ \A i \in DecodableLines : verified[i] = 1
        /\ ~Ended => ENABLED Next

C19_Witness ==
    /\ C19_Case /\ pc = "returned" /\ num_threads > 1
    /\ processed_words >= 2

====
